---- MODULE Spec2Model ----
(***************************************************************************)
(* A model of poker.board.Board: construction from the canonical string,   *)
(* add_cards, the derived caches, the hand predicates, best_ranking and    *)
(* get_possible_straights.                                                 *)
(*                                                                         *)
(* A string is a sequence of one-character strings.  A Card is a record    *)
(* [rank, suit]; a Rank is identified with its high integer value 2..14    *)
(* (Ace = 14) and a Suit with its position 1..4 in c, d, h, s.             *)
(***************************************************************************)
EXTENDS Integers, Sequences, FiniteSets, TLC

VARIABLES
    pc,                  \* pc[b]: "new" before Board(...) is called for board b,
                         \* then "built" (it returned b) or "failed" (it raised)
    _cards,              \* _cards[b]: Board._cards
    _all_combinations,   \* Board._all_combinations
    _suits,              \* Board._suits (Counter, insertion order)
    _all_ranks_counter,  \* Board._all_ranks_counter (Counter, insertion order)
    _straight_ranks,     \* Board._straight_ranks
    src,                 \* src[b]: the string handed to Board(...) for board b
    added,               \* added[b]: the arguments of the add_cards calls on b that
                         \* returned, in call order
    err,                 \* the outcome of the last call: "ok" or the error raised
    call                 \* the last call: its operation ("new" for Board(string),
                         \* "wrap" for Board(board), "add" for add_cards), the
                         \* board handed to it as argument (0 when a string) and
                         \* the board it returned (0 when None or when it raised)

vars == <<pc, _cards, _all_combinations, _suits, _all_ranks_counter,
          _straight_ranks, src, added, err, call>>

\* The boards of a run: board 1, and board 2 where two boards are compared.
BoardIds == {1, 2}

--------------------------------------------------------------------------
(* Bounds of the model.                                                    *)

\* The longest constructor argument, in two-character tokens.
MaxTokens == 6
\* The low ranks 2..LowTop of the deck of SpecRank (next to J, Q, K, A).
LowTop == 5

--------------------------------------------------------------------------
(* Generic helpers.                                                        *)

Max(a, b) == IF a >= b THEN a ELSE b
Min(a, b) == IF a <= b THEN a ELSE b

Range(s) == {s[i] : i \in DOMAIN s}

RECURSIVE SumSeq(_)
SumSeq(s) == IF s = <<>> THEN 0 ELSE Head(s) + SumSeq(Tail(s))

RECURSIVE Flatten(_)
\* the concatenation of a sequence of strings
Flatten(ss) == IF ss = <<>> THEN <<>> ELSE Head(ss) \o Flatten(Tail(ss))

\* every token sequence of length n over T
TokenSeqs(T, n) == [1..n -> T]

--------------------------------------------------------------------------
(* Card, Rank and Suit (poker.card).                                       *)

RANK_CHARS == <<"2", "3", "4", "5", "6", "7", "8", "9", "T", "J", "Q", "K", "A">>
SUIT_CHARS == <<"c", "d", "h", "s">>

\* Rank(ch): the rank a rank symbol denotes, 0 when it denotes none
RankOfChar(ch) ==
    IF \E i \in DOMAIN RANK_CHARS : RANK_CHARS[i] = ch
    THEN (CHOOSE i \in DOMAIN RANK_CHARS : RANK_CHARS[i] = ch) + 1
    ELSE 0

\* Suit(ch): the suit a suit symbol denotes, 0 when it denotes none
SuitOfChar(ch) ==
    IF \E i \in DOMAIN SUIT_CHARS : SUIT_CHARS[i] = ch
    THEN CHOOSE i \in DOMAIN SUIT_CHARS : SUIT_CHARS[i] = ch
    ELSE 0

\* Card(s) raises ValueError unless s is a rank symbol followed by a suit symbol
CardValid(s) == Len(s) = 2 /\ RankOfChar(s[1]) # 0 /\ SuitOfChar(s[2]) # 0

\* Card(s) for a two-character string s
Card(s) == [rank |-> RankOfChar(s[1]), suit |-> SuitOfChar(s[2])]

\* Card.value / str(card): the two-character encoding of a card
CardValue(c) == <<RANK_CHARS[c.rank - 1], SUIT_CHARS[c.suit]>>

\* Card.__lt__: by rank, then by suit
CardLess(a, b) == a.rank < b.rank \/ (a.rank = b.rank /\ a.suit < b.suit)

\* hash(card)
CardHash(c) == 4 * c.rank + c.suit

\* Rank(x) for an integer x of 1..14: 1 and 14 both denote the Ace
RankOfInt(x) == IF x = 1 THEN 14 ELSE x

--------------------------------------------------------------------------
(* Python built-ins used by Board.                                         *)

RECURSIVE InsertDesc(_, _)
\* x placed after every element that is not less than it (a stable descending sort)
InsertDesc(x, s) ==
    IF s = <<>> THEN <<x>>
    ELSE IF CardLess(Head(s), x) THEN <<x>> \o s
    ELSE <<Head(s)>> \o InsertDesc(x, Tail(s))

RECURSIVE SortedReverse(_)
\* sorted(s, reverse=True) on cards
SortedReverse(s) ==
    IF s = <<>> THEN <<>>
    ELSE InsertDesc(s[Len(s)], SortedReverse(SubSeq(s, 1, Len(s) - 1)))

RECURSIVE SortedInts(_)
\* sorted(S) for a set of integers
SortedInts(S) ==
    IF S = {} THEN <<>>
    ELSE LET m == CHOOSE x \in S : \A y \in S : x <= y
         IN  <<m>> \o SortedInts(S \ {m})

RECURSIVE Counter(_)
\* collections.Counter(keys): <<key, count>> pairs in order of first occurrence
Counter(keys) ==
    IF keys = <<>> THEN <<>>
    ELSE LET c == Counter(SubSeq(keys, 1, Len(keys) - 1))
             k == keys[Len(keys)]
         IN  IF \E i \in DOMAIN c : c[i][1] = k
             THEN [i \in DOMAIN c |-> IF c[i][1] = k THEN <<k, c[i][2] + 1>> ELSE c[i]]
             ELSE Append(c, <<k, 1>>)

\* most_common without the sort: the first n items in insertion order
most_common_InsertionOrder(c, n) == SubSeq(c, 1, Min(n, Len(c)))

\* Counter.most_common(n): the first n items by descending count, ties in
\* insertion order (sorted(items, key=count, reverse=True)[:n])
most_common(c, n) ==
    LET Before(i, j) == c[i][2] > c[j][2] \/ (c[i][2] = c[j][2] /\ i < j)
        Pos(j) == Cardinality({i \in DOMAIN c : Before(i, j)}) + 1
    IN  [k \in 1..Min(n, Len(c)) |-> c[CHOOSE j \in DOMAIN c : Pos(j) = k]]

RECURSIVE PairsFrom(_, _, _)
PairsFrom(s, i, j) ==
    IF i >= Len(s) THEN <<>>
    ELSE IF j > Len(s) THEN PairsFrom(s, i + 1, i + 2)
    ELSE <<(<<s[i], s[j]>>)>> \o PairsFrom(s, i, j + 1)

\* tuple(itertools.combinations(s, 2))
combinations2(s) == PairsFrom(s, 1, 2)

--------------------------------------------------------------------------
(* Board: the cache rebuild.                                               *)

\* _get_straight_ranks without the low value of the Ace
_get_straight_ranks_NoLowAce(cs) == SortedInts({cs[i].rank : i \in DOMAIN cs})

\* Board._get_straight_ranks on a card sequence
_get_straight_ranks(cs) ==
    LET result == {cs[i].rank : i \in DOMAIN cs}
    IN  SortedInts(IF 14 \in result THEN result \cup {1} ELSE result)

\* the duplicate-pair check looking at the flop only
CombRaises_FlopOnly(cs) ==
    LET ac == combinations2(SubSeq(cs, 1, 3)) IN \E i \in DOMAIN ac : ac[i][1] = ac[i][2]

\* the duplicate-pair check of Board._create_all_combinations
CombRaises(cs) ==
    LET ac == combinations2(cs) IN \E i \in DOMAIN ac : ac[i][1] = ac[i][2]

suit_histogram(cs) == Counter([i \in DOMAIN cs |-> cs[i].suit])
rank_histogram(cs) == Counter([i \in DOMAIN cs |-> cs[i].rank])

--------------------------------------------------------------------------
(* Board.__new__, Board._set_cards.                                        *)

\* the 2-character slice s[2k-1 .. 2k]
Token(s, k) == SubSeq(s, 2 * k - 1, 2 * k)

\* _set_cards sorting the whole hand
_set_cards_SortAll(s) ==
    SortedReverse([k \in 1..(Len(s) \div 2) |-> Card(Token(s, k))])

\* _set_cards keeping the flop as given
_set_cards_NoSort(s) == [k \in 1..(Len(s) \div 2) |-> Card(Token(s, k))]

\* Board._set_cards: the flop sorted descending, then turn and river as given
_set_cards(s) ==
    SortedReverse(<<Card(Token(s, 1)), Card(Token(s, 2)), Card(Token(s, 3))>>)
      \o (IF Len(s) >= 8 THEN <<Card(Token(s, 4))>> ELSE <<>>)
      \o (IF Len(s) = 10 THEN <<Card(Token(s, 5))>> ELSE <<>>)

\* the error Board(s) raises, "ok" when it returns a board
NewError(s) ==
    IF Len(s) # 6 /\ Len(s) # 8 /\ Len(s) # 10 THEN "InvalidLength"
    ELSE IF \E k \in 1..(Len(s) \div 2) : ~CardValid(Token(s, k)) THEN "InvalidCard"
    ELSE IF CombRaises(_set_cards(s)) THEN "DuplicateCard"
    ELSE "ok"

\* Board(s) on board b
New(b, s) ==
    /\ pc[b] = "new"
    /\ src' = [src EXCEPT ![b] = s]
    /\ err' = NewError(s)
    /\ call' = [op |-> "new", arg |-> 0, ret |-> IF NewError(s) = "ok" THEN b ELSE 0]
    /\ UNCHANGED added
    /\ IF NewError(s) = "ok"
       THEN LET cs == _set_cards(s) IN
            /\ pc' = [pc EXCEPT ![b] = "built"]
            /\ _cards' = [_cards EXCEPT ![b] = cs]
            /\ _all_combinations' = [_all_combinations EXCEPT ![b] = combinations2(cs)]
            /\ _suits' = [_suits EXCEPT ![b] = suit_histogram(cs)]
            /\ _all_ranks_counter' = [_all_ranks_counter EXCEPT ![b] = rank_histogram(cs)]
            /\ _straight_ranks' = [_straight_ranks EXCEPT ![b] = _get_straight_ranks(cs)]
       ELSE /\ pc' = [pc EXCEPT ![b] = "failed"]
            /\ UNCHANGED <<_cards, _all_combinations, _suits,
                           _all_ranks_counter, _straight_ranks>>

\* Board(board) sorting the cards of the board handed to it
NewFromBoard_Resort(b) ==
    /\ pc[b] = "built"
    /\ err' = "ok"
    /\ call' = [op |-> "wrap", arg |-> b, ret |-> b]
    /\ _cards' = [_cards EXCEPT ![b] = SortedReverse(@)]
    /\ UNCHANGED <<pc, _all_combinations, _suits, _all_ranks_counter,
                   _straight_ranks, src, added>>

\* Board(board) for board an instance of Board: __new__ returns it as it is
NewFromBoard(b) ==
    /\ pc[b] = "built"
    /\ err' = "ok"
    /\ call' = [op |-> "wrap", arg |-> b, ret |-> b]
    /\ UNCHANGED <<pc, _cards, _all_combinations, _suits, _all_ranks_counter,
                   _straight_ranks, src, added>>

--------------------------------------------------------------------------
(* Board.add_cards.                                                        *)

\* the cards an add_cards argument of length 2 or 4 decodes to
NewCards(s) ==
    IF Len(s) = 2 THEN <<Card(s)>> ELSE <<Card(Token(s, 1)), Card(Token(s, 2))>>

\* AddError with the board full only above six cards
AddError_FullAtSix(cs, s) ==
    IF Len(s) # 2 /\ Len(s) # 4 THEN "InvalidLength"
    ELSE IF \E k \in 1..(Len(s) \div 2) : ~CardValid(Token(s, k)) THEN "InvalidCard"
    ELSE LET new == NewCards(s) IN
         IF Len(new) = 2 /\ new[1] = new[2] THEN "DuplicateCard"
         ELSE IF Len(cs) + Len(new) > 6 THEN "BoardFull"
         ELSE IF \E i \in DOMAIN new : new[i] \in Range(cs) THEN "DuplicateCard"
         ELSE "ok"

\* AddError without the check of the new cards against the board
AddError_NoOnBoardCheck(cs, s) ==
    IF Len(s) # 2 /\ Len(s) # 4 THEN "InvalidLength"
    ELSE IF \E k \in 1..(Len(s) \div 2) : ~CardValid(Token(s, k)) THEN "InvalidCard"
    ELSE LET new == NewCards(s) IN
         IF Len(new) = 2 /\ new[1] = new[2] THEN "DuplicateCard"
         ELSE IF Len(cs) + Len(new) > 5 THEN "BoardFull"
         ELSE "ok"

\* AddError without the check of two identical new cards
AddError_NoPairCheck(cs, s) ==
    IF Len(s) # 2 /\ Len(s) # 4 THEN "InvalidLength"
    ELSE IF \E k \in 1..(Len(s) \div 2) : ~CardValid(Token(s, k)) THEN "InvalidCard"
    ELSE LET new == NewCards(s) IN
         IF Len(cs) + Len(new) > 5 THEN "BoardFull"
         ELSE IF \E i \in DOMAIN new : new[i] \in Range(cs) THEN "DuplicateCard"
         ELSE "ok"

\* AddError with the full-board check ahead of the identical-pair check
AddError_FullFirst(cs, s) ==
    IF Len(s) # 2 /\ Len(s) # 4 THEN "InvalidLength"
    ELSE IF \E k \in 1..(Len(s) \div 2) : ~CardValid(Token(s, k)) THEN "InvalidCard"
    ELSE LET new == NewCards(s) IN
         IF Len(cs) + Len(new) > 5 THEN "BoardFull"
         ELSE IF Len(new) = 2 /\ new[1] = new[2] THEN "DuplicateCard"
         ELSE IF \E i \in DOMAIN new : new[i] \in Range(cs) THEN "DuplicateCard"
         ELSE "ok"

\* AddError checking only the first new card against the board
AddError_FirstCardOnly(cs, s) ==
    IF Len(s) # 2 /\ Len(s) # 4 THEN "InvalidLength"
    ELSE IF \E k \in 1..(Len(s) \div 2) : ~CardValid(Token(s, k)) THEN "InvalidCard"
    ELSE LET new == NewCards(s) IN
         IF Len(new) = 2 /\ new[1] = new[2] THEN "DuplicateCard"
         ELSE IF Len(cs) + Len(new) > 5 THEN "BoardFull"
         ELSE IF new[1] \in Range(cs) THEN "DuplicateCard"
         ELSE "ok"

\* the error the validation of add_cards raises, "ok" when it reaches the append
AddError(cs, s) ==
    IF Len(s) # 2 /\ Len(s) # 4 THEN "InvalidLength"
    ELSE IF \E k \in 1..(Len(s) \div 2) : ~CardValid(Token(s, k)) THEN "InvalidCard"
    ELSE LET new == NewCards(s) IN
         IF Len(new) = 2 /\ new[1] = new[2] THEN "DuplicateCard"
         ELSE IF Len(cs) + Len(new) > 5 THEN "BoardFull"
         ELSE IF \E i \in DOMAIN new : new[i] \in Range(cs) THEN "DuplicateCard"
         ELSE "ok"

\* add_cards rebuilding the histograms from the new cards alone
add_cards_CountNewOnly(b, s) ==
    /\ pc[b] = "built"
    /\ UNCHANGED <<pc, src>>
    /\ call' = [op |-> "add", arg |-> 0, ret |-> 0]
    /\ LET e == AddError(_cards[b], s) IN
       IF e # "ok"
       THEN /\ err' = e
            /\ UNCHANGED <<_cards, _all_combinations, _suits, _all_ranks_counter,
                           _straight_ranks, added>>
       ELSE LET cs == _cards[b] \o NewCards(s) IN
            /\ _cards' = [_cards EXCEPT ![b] = cs]
            /\ _all_combinations' = [_all_combinations EXCEPT ![b] = combinations2(cs)]
            /\ err' = "ok"
            /\ added' = [added EXCEPT ![b] = Append(@, s)]
            /\ _suits' = [_suits EXCEPT ![b] = suit_histogram(NewCards(s))]
            /\ _all_ranks_counter' =
                   [_all_ranks_counter EXCEPT ![b] = rank_histogram(NewCards(s))]
            /\ _straight_ranks' =
                   [_straight_ranks EXCEPT ![b] = _get_straight_ranks(cs)]

\* board.add_cards(s) on board b
add_cards(b, s) ==
    /\ pc[b] = "built"
    /\ UNCHANGED <<pc, src>>
    /\ call' = [op |-> "add", arg |-> 0, ret |-> 0]
    /\ LET e == AddError(_cards[b], s) IN
       IF e # "ok"
       THEN /\ err' = e
            /\ UNCHANGED <<_cards, _all_combinations, _suits, _all_ranks_counter,
                           _straight_ranks, added>>
       ELSE LET cs == _cards[b] \o NewCards(s) IN
            /\ _cards' = [_cards EXCEPT ![b] = cs]
            /\ _all_combinations' = [_all_combinations EXCEPT ![b] = combinations2(cs)]
            /\ IF CombRaises(cs)
               THEN \* the rebuild raises after the append: the histograms stay stale
                    /\ err' = "DuplicateCard"
                    /\ UNCHANGED <<_suits, _all_ranks_counter, _straight_ranks, added>>
               ELSE /\ err' = "ok"
                    /\ added' = [added EXCEPT ![b] = Append(@, s)]
                    /\ _suits' = [_suits EXCEPT ![b] = suit_histogram(cs)]
                    /\ _all_ranks_counter' =
                           [_all_ranks_counter EXCEPT ![b] = rank_histogram(cs)]
                    /\ _straight_ranks' =
                           [_straight_ranks EXCEPT ![b] = _get_straight_ranks(cs)]

--------------------------------------------------------------------------
(* Board: the queries.                                                     *)

\* Board.cards
cards(b) == _cards[b]

\* Board.__len__
BoardLen(b) == Len(cards(b))

\* Board.__hash__: the sum of the cards' hashes
BoardHash(b) == SumSeq([i \in DOMAIN cards(b) |-> CardHash(cards(b)[i])])

\* Board.__eq__
BoardEq(a, b) == cards(a) = cards(b)

\* value emitting the cards in sorted order
value_Sorted(b) ==
    LET cs == SortedReverse(cards(b)) IN Flatten([i \in DOMAIN cs |-> CardValue(cs[i])])

\* Board.value: the cards' encodings, concatenated
value(b) == Flatten([i \in DOMAIN cards(b) |-> CardValue(cards(b)[i])])

\* Board._get_differences
_get_differences(b) ==
    LET sr == _straight_ranks[b]
    IN  [i \in 1..(Len(sr) - 1) |-> sr[i + 1] - sr[i]]

\* list.count(x)
Count(s, x) == Cardinality({i \in DOMAIN s : s[i] = x})

\* Board.suit_count
suit_count(b) == most_common(_suits[b], 1)[1][2]

has_pair(b) == most_common(_all_ranks_counter[b], 1)[1][2] >= 2

has_double(b) ==
    IF Len(_all_ranks_counter[b]) < 2 THEN FALSE
    ELSE LET result == most_common(_all_ranks_counter[b], 2)
         IN  result[1][2] >= 2 /\ result[2][2] >= 2

has_trip(b) == most_common(_all_ranks_counter[b], 1)[1][2] >= 3

\* has_straight asking for three gaps of 1 or more
has_straight_AtLeastThree(b) == Count(_get_differences(b), 1) >= 3

has_straight(b) == Count(_get_differences(b), 1) = 4

has_flush(b) == suit_count(b) = 5

has_full_house(b) ==
    IF Len(_all_ranks_counter[b]) < 2 THEN FALSE
    ELSE LET result == most_common(_all_ranks_counter[b], 2)
         IN  result[1][2] = 3 /\ result[2][2] = 2

has_quad(b) == most_common(_all_ranks_counter[b], 1)[1][2] = 4

has_straight_flush(b) == has_straight(b) /\ has_flush(b)

RANKING_NAMES ==
    <<"high_card", "pair", "two_pair", "three_of_a_kind", "straight", "flush",
      "full_house", "four_of_a_kind", "straight_flush">>

\* best_ranking asking for trips before the full house
best_ranking_TripFirst(b) ==
    IF has_straight_flush(b) THEN 8
    ELSE IF has_quad(b) THEN 7
    ELSE IF has_flush(b) THEN 5
    ELSE IF has_straight(b) THEN 4
    ELSE IF has_trip(b) THEN 3
    ELSE IF has_full_house(b) THEN 6
    ELSE IF has_double(b) THEN 2
    ELSE IF has_pair(b) THEN 1
    ELSE 0

\* Board.best_ranking
best_ranking(b) ==
    IF has_straight_flush(b) THEN 8
    ELSE IF has_quad(b) THEN 7
    ELSE IF has_full_house(b) THEN 6
    ELSE IF has_flush(b) THEN 5
    ELSE IF has_straight(b) THEN 4
    ELSE IF has_trip(b) THEN 3
    ELSE IF has_double(b) THEN 2
    ELSE IF has_pair(b) THEN 1
    ELSE 0

\* Board.best_ranking_name (the tuple is indexed from 0)
best_ranking_name(b) == RANKING_NAMES[best_ranking(b) + 1]

--------------------------------------------------------------------------
(* Board.get_possible_straights.                                           *)

\* range_of_numbers stopping at the King
RangeStop_Fourteen(last, num_cards) == Min(last + num_cards + 1, 14)

\* the upper end of range_of_numbers, exclusive
RangeStop(last, num_cards) == Min(last + num_cards + 1, 15)

\* the lower end of range_of_numbers
RangeStart(first, num_cards) == Max(1, first - num_cards)

\* str_ranks keeping the anchor ranks: the whole window
StrRanks_KeepAnchor(lo, ranks_split) == [k \in 1..5 |-> RankOfInt(lo + k - 1)]

\* [Rank(x) for x in window if x not in ranks_split], window = lo..lo+4
StrRanks(lo, ranks_split) ==
    LET Missing(x) == x \notin Range(ranks_split)
        window == [k \in 1..5 |-> lo + k - 1]
        needed == SelectSeq(window, Missing)
    IN  [k \in DOMAIN needed |-> RankOfInt(needed[k])]

\* the anchor test passing when any anchor rank lies in the window
AnchorInWindow_Any(ranks_split, lo) ==
    \E k \in DOMAIN ranks_split : ranks_split[k] \in lo..(lo + 4)

\* all([x in range_of_numbers_5 for x in ranks_split]), window = lo..lo+4
AnchorInWindow(ranks_split, lo) ==
    \A k \in DOMAIN ranks_split : ranks_split[k] \in lo..(lo + 4)

RECURSIVE PossibleFrom(_, _, _, _, _)
\* the two loops, from anchor index i (from 1) and window offset j (from 0) on
PossibleFrom(sr, num_cards, i, j, result) ==
    LET n == 5 - num_cards IN
    IF i > Len(sr) THEN result
    ELSE IF (i - 1) + n > Len(sr) THEN PossibleFrom(sr, num_cards, i + 1, 0, result)
    ELSE LET ranks_split == SubSeq(sr, i, i + n - 1)
             lo == RangeStart(ranks_split[1], num_cards)
             hi == RangeStop(ranks_split[n], num_cards)
             rlen == Max(0, hi - lo)
         IN  IF j >= rlen THEN PossibleFrom(sr, num_cards, i + 1, 0, result)
             ELSE IF j + 5 > rlen THEN PossibleFrom(sr, num_cards, i, j + 1, result)
             ELSE IF AnchorInWindow(ranks_split, lo + j)
                  THEN LET str_ranks == StrRanks(lo + j, ranks_split)
                       IN  PossibleFrom(sr, num_cards, i, j + 1,
                               IF str_ranks \in Range(result) THEN result
                               ELSE Append(result, str_ranks))
                  ELSE PossibleFrom(sr, num_cards, i, j + 1, result)

\* Board.get_possible_straights(num_cards)
get_possible_straights(b, num_cards) ==
    PossibleFrom(_straight_ranks[b], num_cards, 1, 0, <<>>)

--------------------------------------------------------------------------
(* Specifications.                                                         *)

Init ==
    /\ pc = [b \in BoardIds |-> "new"]
    /\ _cards = [b \in BoardIds |-> <<>>]
    /\ _all_combinations = [b \in BoardIds |-> <<>>]
    /\ _suits = [b \in BoardIds |-> <<>>]
    /\ _all_ranks_counter = [b \in BoardIds |-> <<>>]
    /\ _straight_ranks = [b \in BoardIds |-> <<>>]
    /\ src = [b \in BoardIds |-> <<>>]
    /\ added = [b \in BoardIds |-> <<>>]
    /\ err = "ok"
    /\ call = [op |-> "none", arg |-> 0, ret |-> 0]

\* Spec: one board, a small deck, every kind of argument.
\* The tokens of the constructor arguments: five cards and an undecodable pair.
NewTokens ==
    {<<"A", "s">>, <<"K", "c">>, <<"Q", "h">>, <<"2", "c">>, <<"A", "c">>, <<"2", "k">>}

\* the strings of n tokens
TokenStrings(T, n) == {Flatten(ts) : ts \in TokenSeqs(T, n)}

\* a string with its last character dropped
Chop(s) == SubSeq(s, 1, Len(s) - 1)

\* strings of every length up to 2 * MaxTokens, even and odd
LengthInputs ==
    LET even == UNION {TokenStrings({<<"A", "s">>, <<"K", "c">>}, n) : n \in 0..MaxTokens}
    IN  even \cup {Chop(s) : s \in even \ {<<>>}}

\* every string of 3, 4 or 5 tokens, and strings of the other lengths
NewInputs == UNION {TokenStrings(NewTokens, n) : n \in 3..5} \cup LengthInputs

\* the tokens of the add_cards arguments: one card more
AddTokens == NewTokens \cup {<<"3", "d">>}

\* the tokens of the two-card arguments
PairTokens == {<<"A", "s">>, <<"2", "c">>, <<"3", "d">>, <<"2", "k">>}

\* nothing, one token, two tokens, and strings of 1, 3 and 6 characters
AddInputs ==
    {<<>>} \cup AddTokens \cup TokenStrings(PairTokens, 2)
      \cup {Chop(s) : s \in AddTokens}
      \cup {<<"A", "s", "K">>, <<"A", "s", "K", "c", "Q", "h">>}

Construct == pc[1] = "new" /\ \E s \in NewInputs : New(1, s)
Add == pc[1] = "built" /\ \E s \in AddInputs : add_cards(1, s)

Next == Construct \/ Add

Spec == Init /\ [][Next]_vars

\* SpecRank: one board over a deck rich enough for every ranking: the ranks
\* 2..LowTop and J..A in clubs, the other three deuces and a second king.
RankDeck ==
    {[rank |-> r, suit |-> 1] : r \in (2..LowTop) \cup (11..14)}
      \cup {[rank |-> 2, suit |-> s] : s \in 2..4}
      \cup {[rank |-> 13, suit |-> 2]}

RankTokens == {CardValue(c) : c \in RankDeck}

\* the flops, given in descending order
RankNewInputs ==
    {s \in TokenStrings(RankTokens, 3) :
        /\ CardLess(Card(Token(s, 2)), Card(Token(s, 1)))
        /\ CardLess(Card(Token(s, 3)), Card(Token(s, 2)))}

RankAddInputs ==
    RankTokens \cup {<<"2", "d", "K", "d">>, <<"A", "c", "K", "d">>, <<"3", "c", "2", "h">>}

ConstructRank == pc[1] = "new" /\ \E s \in RankNewInputs : New(1, s)
AddRank == pc[1] = "built" /\ \E s \in RankAddInputs : add_cards(1, s)

NextRank == ConstructRank \/ AddRank

SpecRank == Init /\ [][NextRank]_vars

\* SpecStraight: one board over one card of each rank 2..LowTop and J..A, and
\* a second deuce.
StraightDeck ==
    {[rank |-> r, suit |-> 1] : r \in (2..LowTop) \cup (11..14)}
      \cup {[rank |-> 2, suit |-> 2]}

StraightTokens == {CardValue(c) : c \in StraightDeck}

\* the flops, given in descending order
StraightNewInputs ==
    {s \in TokenStrings(StraightTokens, 3) :
        /\ CardLess(Card(Token(s, 2)), Card(Token(s, 1)))
        /\ CardLess(Card(Token(s, 3)), Card(Token(s, 2)))}

StraightAddInputs == StraightTokens \cup {<<"3", "c", "2", "d">>}

ConstructStraight == pc[1] = "new" /\ \E s \in StraightNewInputs : New(1, s)
AddStraight == pc[1] = "built" /\ \E s \in StraightAddInputs : add_cards(1, s)

NextStraight == ConstructStraight \/ AddStraight

SpecStraight == Init /\ [][NextStraight]_vars

\* SpecGrow: one board over the four deuces, two kings and the clubs 3, 4, 5
\* and Ace: every ranking from pair to straight flush can be grown.
GrowDeck ==
    {[rank |-> 2, suit |-> s] : s \in 1..4}
      \cup {[rank |-> 13, suit |-> 1], [rank |-> 13, suit |-> 2]}
      \cup {[rank |-> r, suit |-> 1] : r \in {3, 4, 5, 14}}

GrowTokens == {CardValue(c) : c \in GrowDeck}

\* the flops, given in descending order
GrowNewInputs ==
    {s \in TokenStrings(GrowTokens, 3) :
        /\ CardLess(Card(Token(s, 2)), Card(Token(s, 1)))
        /\ CardLess(Card(Token(s, 3)), Card(Token(s, 2)))}

GrowAddInputs ==
    GrowTokens \cup {<<"2", "d", "K", "d">>, <<"5", "c", "4", "c">>, <<"2", "h", "2", "h">>}

ConstructGrow == pc[1] = "new" /\ \E s \in GrowNewInputs : New(1, s)
AddGrow == pc[1] = "built" /\ \E s \in GrowAddInputs : add_cards(1, s)

NextGrow == ConstructGrow \/ AddGrow

SpecGrow == Init /\ [][NextGrow]_vars

\* SpecPair: two boards, built from any order of distinct cards and grown alone.
PairNewTokens == {<<"A", "c">>, <<"K", "c">>, <<"Q", "h">>, <<"J", "s">>}
PairAddTokens == PairNewTokens \cup {<<"2", "c">>}

PairNewInputs ==
    {s \in TokenStrings(PairNewTokens, 3) \cup TokenStrings(PairNewTokens, 4) :
        NewError(s) = "ok"}

ConstructPair == \E b \in BoardIds : pc[b] = "new" /\ \E s \in PairNewInputs : New(b, s)
AddPair == \E b \in BoardIds : pc[b] = "built" /\ \E s \in PairAddTokens : add_cards(b, s)

NextPair == ConstructPair \/ AddPair

SpecPair == Init /\ [][NextPair]_vars

\* SpecWrap: two boards, built from any order of three cards, grown by single
\* cards and handed to Board(...) again.
WrapNewTokens == {<<"K", "c">>, <<"Q", "h">>, <<"2", "c">>}
WrapAddTokens == {<<"A", "c">>, <<"J", "s">>, <<"2", "c">>}

WrapNewInputs == {s \in TokenStrings(WrapNewTokens, 3) : NewError(s) = "ok"}

ConstructWrap == \E b \in BoardIds : pc[b] = "new" /\ \E s \in WrapNewInputs : New(b, s)
AddWrap == \E b \in BoardIds : pc[b] = "built" /\ \E s \in WrapAddTokens : add_cards(b, s)
Wrap == \E b \in BoardIds : pc[b] = "built" /\ NewFromBoard(b)

NextWrap == ConstructWrap \/ AddWrap \/ Wrap

SpecWrap == Init /\ [][NextWrap]_vars

--------------------------------------------------------------------------
(* The properties of Board.                                                *)

\* the cards and the caches of board b
BoardState(b) ==
    <<_cards[b], _all_combinations[b], _suits[b], _all_ranks_counter[b],
      _straight_ranks[b]>>

\* the result of every predicate on board b
Predicates(b) ==
    <<has_pair(b), has_double(b), has_trip(b), has_straight(b), has_flush(b),
      has_full_house(b), has_quad(b), has_straight_flush(b), suit_count(b),
      best_ranking(b), _get_differences(b)>>

Built(b) == pc[b] = "built"

\* C1: after construction and after every add_cards call, successful or
\* failing, the board has 3, 4 or 5 cards, and no call makes it shorter.
C1_LengthThreeToFive ==
    [][ /\ Built(1)' => Len(_cards[1]') \in 3..5
        /\ Built(1) => Len(_cards[1]') >= Len(_cards[1]) ]_vars

\* a five-card board, grown by two one-card calls, that refused a further call
C1_Witness ==
    /\ Built(1) /\ Len(_cards[1]) = 5
    /\ Len(added[1]) = 2 /\ err = "BoardFull"

\* C2: no two positions of a board hold the same (rank, suit) card.
C2_NoDuplicateCards ==
    Built(1) =>
        \A i, j \in DOMAIN _cards[1] : i # j => _cards[1][i] # _cards[1][j]

\* a grown board that refused a duplicate
C2_Witness ==
    /\ Built(1) /\ Len(_cards[1]) = 4 /\ added[1] # <<>>
    /\ err = "DuplicateCard"

\* C3: an add_cards call that fails leaves the cards, the caches and the
\* result of every predicate as they were.
C3_FailedAddLeavesBoard ==
    [][ (Built(1) /\ err' # "ok") =>
            /\ BoardState(1)' = BoardState(1)
            /\ Predicates(1)' = Predicates(1)
            /\ added' = added ]_vars

\* a four-card board that refused two more cards
C3_Witness == Built(1) /\ Len(_cards[1]) = 4 /\ err = "BoardFull"

\* the error of the argument alone: its length, its cards, two identical cards
ArgError(s) ==
    IF Len(s) \notin {2, 4} THEN "InvalidLength"
    ELSE IF ~CardValid(SubSeq(s, 1, 2)) THEN "InvalidCard"
    ELSE IF Len(s) = 4 /\ ~CardValid(SubSeq(s, 3, 4)) THEN "InvalidCard"
    ELSE IF Len(s) = 4 /\ SubSeq(s, 1, 2) = SubSeq(s, 3, 4) THEN "DuplicateCard"
    ELSE "ok"

\* C4 as claimed: on a five-card board every further add_cards call fails with
\* BoardFullError, whatever its argument, and leaves the board unchanged.
C4_AlwaysBoardFull ==
    [][ (Built(1) /\ Len(_cards[1]) = 5) =>
            (err' = "BoardFull" /\ BoardState(1)' = BoardState(1)) ]_vars

\* C4 as amended: on a five-card board every further add_cards call fails and
\* leaves the board unchanged; the error is BoardFullError when the argument
\* is one decodable card or two different decodable cards, and the argument's
\* own error (length, card, identical pair) otherwise.
C4_FullBoardRejects ==
    /\ [][ (Built(1) /\ Len(_cards[1]) = 5) =>
              (err' # "ok" /\ BoardState(1)' = BoardState(1)) ]_vars
    /\ []( (Built(1) /\ Len(_cards[1]) = 5) =>
              \A s \in AddInputs :
                  AddError(_cards[1], s) =
                      IF ArgError(s) = "ok" THEN "BoardFull" ELSE ArgError(s) )

\* a five-card board that refused an undecodable card
C4_Witness == Built(1) /\ Len(_cards[1]) = 5 /\ err = "InvalidCard"

\* the flop of board b is in descending Card order
FlopDescending(b) ==
    /\ CardLess(_cards[b][2], _cards[b][1])
    /\ CardLess(_cards[b][3], _cards[b][2])

\* C5: the flop is in descending Card order as fixed at construction, turn and
\* river are stored as given, and a successful add_cards keeps every position
\* and appends the new cards in the order given.
C5_FlopSortedRestAppended ==
    [][ /\ Built(1)' => FlopDescending(1)'
        /\ (pc[1] = "new" /\ Built(1)') =>
              /\ Len(_cards[1]') = Len(src[1]') \div 2
              /\ {_cards[1]'[i] : i \in 1..3} = {Card(Token(src[1]', k)) : k \in 1..3}
              /\ \A k \in 4..Len(_cards[1]') : _cards[1]'[k] = Card(Token(src[1]', k))
        /\ (Built(1) /\ added' # added) =>
              _cards[1]' = _cards[1] \o NewCards(added[1]'[Len(added[1]')])
        /\ (Built(1) /\ added' = added) => _cards[1]' = _cards[1] ]_vars

\* a flop given out of order, then two cards added at once in ascending
\* order, the turn above the last flop card and the river above the whole flop
C5_Witness ==
    /\ Built(1) /\ Len(src[1]) = 6
    /\ CardLess(Card(Token(src[1], 1)), Card(Token(src[1], 2)))
    /\ Len(added[1]) = 1 /\ Len(added[1][1]) = 4
    /\ CardLess(_cards[1][3], _cards[1][4])
    /\ CardLess(_cards[1][4], _cards[1][5])
    /\ CardLess(_cards[1][1], _cards[1][5])

\* the ace-dual rank set of board b holds five consecutive integers
HasRunOfFive(b) ==
    \E k \in 1..10 : \A x \in k..(k + 4) : x \in Range(_straight_ranks[b])

\* C6: has_straight is true exactly when the ace-dual rank set contains five
\* consecutive integers.
C6_StraightIffRunOfFive == Built(1) => (has_straight(1) <=> HasRunOfFive(1))

\* the predicates of the ranking, from pair (1) to straight_flush (8)
Ladder(b) ==
    <<has_pair(b), has_double(b), has_trip(b), has_straight(b), has_flush(b),
      has_full_house(b), has_quad(b), has_straight_flush(b)>>

NameOf(k) ==
    CASE k = 0 -> "high_card" [] k = 1 -> "pair" [] k = 2 -> "two_pair"
      [] k = 3 -> "three_of_a_kind" [] k = 4 -> "straight" [] k = 5 -> "flush"
      [] k = 6 -> "full_house" [] k = 7 -> "four_of_a_kind"
      [] k = 8 -> "straight_flush"

\* C7: best_ranking is the number of the highest-priority predicate that is
\* true, 0 when none is; it lies in 0..8 and best_ranking_name is its name.
C7_BestRankingIsHighestTrue ==
    Built(1) =>
        LET true == {k \in 1..8 : Ladder(1)[k]} IN
        /\ best_ranking(1) \in 0..8
        /\ \A k \in true : k <= best_ranking(1)
        /\ best_ranking(1) # 0 => best_ranking(1) \in true
        /\ best_ranking_name(1) = NameOf(best_ranking(1))

\* a full house, which is also trips and two pair
C7_Witness ==
    /\ Built(1) /\ has_full_house(1) /\ has_trip(1) /\ has_double(1)
    /\ best_ranking(1) = 6

\* the flops of the two source strings are permutations of each other and the
\* rest of the strings is equal
SamePermutedSource ==
    /\ Len(src[1]) = Len(src[2])
    /\ {Token(src[1], k) : k \in 1..3} = {Token(src[2], k) : k \in 1..3}
    /\ SubSeq(src[1], 7, Len(src[1])) = SubSeq(src[2], 7, Len(src[2]))

\* C8: boards are equal exactly when their card sequences are, equal boards
\* have equal hashes; boards built from permuted flops with the same turn and
\* river are equal as long as the same cards were added to both, and unequal
\* while a card was added to one of them only.
C8_EqualityAndHash ==
    (Built(1) /\ Built(2)) =>
        /\ BoardEq(1, 2) <=>
              /\ BoardLen(1) = BoardLen(2)
              /\ \A i \in 1..BoardLen(1) :
                    /\ cards(1)[i].rank = cards(2)[i].rank
                    /\ cards(1)[i].suit = cards(2)[i].suit
        /\ BoardEq(1, 2) => BoardHash(1) = BoardHash(2)
        /\ (SamePermutedSource /\ added[1] = added[2]) =>
              (BoardEq(1, 2) /\ BoardHash(1) = BoardHash(2))
        /\ (SamePermutedSource /\ added[1] # added[2]) => ~BoardEq(1, 2)

\* two boards from differently ordered flops, grown by the same card
C8_Witness ==
    /\ Built(1) /\ Built(2) /\ src[1] # src[2] /\ SamePermutedSource
    /\ added[1] # <<>> /\ added[1] = added[2]
    /\ BoardEq(1, 2)

\* the string decodes to 3, 4 or 5 cards, all different
ValidBoardString(s) ==
    /\ Len(s) \in {6, 8, 10}
    /\ \A k \in 1..(Len(s) \div 2) : CardValid(Token(s, k))
    /\ \A j, k \in 1..(Len(s) \div 2) : j # k => Card(Token(s, j)) # Card(Token(s, k))

\* C9: Board(s) returns a board of len(s)/2 cards exactly when s has length 6,
\* 8 or 10, every pair decodes and no two cards of the whole hand are equal;
\* otherwise it raises the length, card or duplicate error, in this order of
\* precedence, and there is no board.
C9_ConstructionOutcome ==
    pc[1] # "new" =>
        /\ Built(1) <=> ValidBoardString(src[1])
        /\ (Built(1) /\ added[1] = <<>>) => Len(_cards[1]) = Len(src[1]) \div 2
        /\ pc[1] = "failed" =>
              /\ BoardState(1) = <<(<<>>), <<>>, <<>>, <<>>, <<>>>>
              /\ err = IF Len(src[1]) \notin {6, 8, 10} THEN "InvalidLength"
                       ELSE IF \E k \in 1..(Len(src[1]) \div 2) :
                                   ~CardValid(Token(src[1], k))
                            THEN "InvalidCard"
                            ELSE "DuplicateCard"

\* a five-card string whose river repeats its turn
C9_Witness ==
    /\ pc[1] = "failed" /\ err = "DuplicateCard" /\ Len(src[1]) = 10
    /\ Token(src[1], 4) = Token(src[1], 5)
    /\ Cardinality({Token(src[1], k) : k \in 1..4}) = 4

\* the anchors: the contiguous slices of n elements of the ace-dual rank set
Anchors(b, n) ==
    LET sr == _straight_ranks[b]
    IN  {SubSeq(sr, i, i + n - 1) : i \in 1..(Len(sr) - n + 1)}

\* the ranks of a set of integers, in ascending order of the integers
RankList(S) == LET s == SortedInts(S) IN [k \in DOMAIN s |-> RankOfInt(s[k])]

\* C10: get_possible_straights(num_cards) returns exactly the sets W minus A
\* for A an anchor of 5 - num_cards ranks and W a run of five consecutive
\* integers of 1..14 that contains A.
C10_PossibleStraightsExact ==
    Built(1) =>
        \A num_cards \in 1..2 :
            Range(get_possible_straights(1, num_cards)) =
                {RankList((k..(k + 4)) \ Range(A)) :
                    <<k, A>> \in {ka \in (1..10) \X Anchors(1, 5 - num_cards) :
                                     Range(ka[2]) \subseteq ka[1]..(ka[1] + 4)}}

\* a board without an Ace that an Ace, counted as 1, completes from below
C10_Witness ==
    /\ Built(1)
    /\ <<14, 5>> \in Range(get_possible_straights(1, 2))
    /\ <<14>> \in Range(get_possible_straights(1, 1))
    /\ 14 \notin Range(_straight_ranks[1])

\* the ranks on board b: an Ace is present as 1 and as 14, both the Ace
PresentRanks(b) == {RankOfInt(x) : x \in Range(_straight_ranks[b])}

\* C11: no rank of a list returned by get_possible_straights(num_cards) is
\* already on the board (in its ace-dual rank set), so every list is a minimal
\* completion of its straight.
C11_ListsAvoidBoardRanks ==
    Built(1) =>
        \A num_cards \in 1..2 :
            \A L \in Range(get_possible_straights(1, num_cards)) :
                \A k \in DOMAIN L : L[k] \notin PresentRanks(1)

\* C12 as claimed: every list has num_cards ranks in ascending order of their
\* rank values, and no two lists of a result are equal.
C12_AscendingRankValues ==
    Built(1) =>
        \A num_cards \in 1..2 :
            LET res == get_possible_straights(1, num_cards) IN
            /\ \A i \in DOMAIN res :
                  /\ Len(res[i]) = num_cards
                  /\ \A k \in 1..(Len(res[i]) - 1) : res[i][k] < res[i][k + 1]
            /\ \A i, j \in DOMAIN res : i # j => res[i] # res[j]

\* C12 as amended: every list has num_cards ranks in ascending order of the
\* window integers they were made from: ascending by rank value, except that
\* an Ace made from 1 comes first; no two lists of a result are equal.
C12_AscendingWindowOrder ==
    Built(1) =>
        \A num_cards \in 1..2 :
            LET res == get_possible_straights(1, num_cards) IN
            /\ \A i \in DOMAIN res :
                  /\ Len(res[i]) = num_cards
                  /\ \A k \in 1..(Len(res[i]) - 1) :
                        res[i][k] < res[i][k + 1] \/ (k = 1 /\ res[i][k] = 14)
            /\ \A i, j \in DOMAIN res : i # j => res[i] # res[j]

\* a result of several lists, one of them headed by the Ace that stands for 1
C12_Witness ==
    /\ Built(1)
    /\ Len(get_possible_straights(1, 2)) >= 2
    /\ \E L \in Range(get_possible_straights(1, 2)) : L[1] = 14 /\ L[2] < 14

\* the distinct ranks of the cards of board b
DistinctRanks(b) == {_cards[b][i].rank : i \in DOMAIN _cards[b]}

\* C13: get_possible_straights(num_cards) is empty when the board has fewer
\* than 5 - num_cards distinct ranks, also when the Ace brings the ace-dual
\* rank set to 5 - num_cards elements.
C13_EmptyBelowAnchorSize ==
    Built(1) =>
        \A num_cards \in 1..2 :
            Cardinality(DistinctRanks(1)) < 5 - num_cards =>
                get_possible_straights(1, num_cards) = <<>>

\* an Ace and one other rank: an ace-dual rank set of three elements, and of
\* four elements once a third rank is on the board
C13_Witness ==
    /\ Built(1) /\ 14 \in DistinctRanks(1)
    /\ Cardinality(DistinctRanks(1)) = 3 /\ Len(_straight_ranks[1]) = 4
    /\ Len(_cards[1]) = 4
    /\ get_possible_straights(1, 1) = <<>>
    /\ get_possible_straights(1, 2) # <<>>

\* the flop of the string s is given in descending Card order
SourceFlopDescending(s) ==
    /\ CardLess(Card(Token(s, 2)), Card(Token(s, 1)))
    /\ CardLess(Card(Token(s, 3)), Card(Token(s, 2)))

\* C14: value is the 2-character encodings of the cards in storage order;
\* Board(s).value is s exactly when the flop of s is given in descending
\* order, Board(Board(s).value) equals Board(s), and a successful add_cards(c)
\* makes value the old value followed by c.
C14_ValueStorageOrder ==
    /\ [][ (Built(1) /\ added' # added) =>
              value(1)' = value(1) \o added[1]'[Len(added[1]')] ]_vars
    /\ []( Built(1) =>
              /\ Len(value(1)) = 2 * Len(_cards[1])
              /\ \A k \in DOMAIN _cards[1] : Card(Token(value(1), k)) = _cards[1][k]
              /\ added[1] = <<>> => (value(1) = src[1] <=> SourceFlopDescending(src[1]))
              /\ NewError(value(1)) = "ok"
              /\ _set_cards(value(1)) = _cards[1] )

\* a flop given out of order, then a river below the turn: value is neither
\* the source string nor sorted
C14_Witness ==
    /\ Built(1) /\ ~SourceFlopDescending(src[1])
    /\ Len(src[1]) = 6 /\ Len(added[1]) = 2
    /\ CardLess(_cards[1][5], _cards[1][4])
    /\ value(1) = SubSeq(value(1), 1, 6) \o added[1][1] \o added[1][2]
    /\ SubSeq(value(1), 1, 6) # src[1]

\* C15: Board(board) returns the board handed to it, and no board's cards or
\* caches change by it: nothing is sorted, validated or copied.
C15_WrapReturnsSameBoard ==
    [][ (call'.op = "wrap" /\ vars' # vars) =>
            /\ Built(call'.arg)
            /\ call'.ret = call'.arg
            /\ err' = "ok"
            /\ \A b \in BoardIds : BoardState(b)' = BoardState(b)
            /\ pc' = pc /\ src' = src /\ added' = added ]_vars

\* the second of two equal boards, its turn above its flop, handed to Board(...)
C15_Witness ==
    /\ Built(1) /\ Built(2) /\ BoardEq(1, 2)
    /\ call = [op |-> "wrap", arg |-> 2, ret |-> 2]
    /\ Len(_cards[2]) = 5 /\ CardLess(_cards[2][1], _cards[2][4])

\* the count a histogram holds for a key, 0 when it does not hold the key
HistCount(h, key) ==
    IF \E i \in DOMAIN h : h[i][1] = key
    THEN h[CHOOSE i \in DOMAIN h : h[i][1] = key][2]
    ELSE 0

\* the histogram h counts the values f[i] of the positions of a sequence f:
\* one entry for each value that occurs, holding the number of its positions
CountsOf(h, f, keys) ==
    /\ \A i, j \in DOMAIN h : i # j => h[i][1] # h[j][1]
    /\ \A i \in DOMAIN h : h[i][1] \in keys /\ h[i][2] >= 1
    /\ \A key \in keys : HistCount(h, key) = Cardinality({i \in DOMAIN f : f[i] = key})

\* C16: after construction and after every add_cards call, successful or
\* failing, the caches agree with the cards: all_combinations is every pair of
\* positions i < j, the histograms count the suits and ranks of the cards,
\* and the straight rank set is the ascending set of the distinct rank values,
\* with 1 in it exactly when 14 is.
C16_CachesAgreeWithCards ==
    Built(1) =>
        LET cs == _cards[1]
            n == Len(cs)
            ac == _all_combinations[1]
            sr == _straight_ranks[1]
        IN  /\ 2 * Len(ac) = n * (n - 1)
            /\ \A i, j \in 1..n : i < j =>
                  \E k \in DOMAIN ac : ac[k] = <<cs[i], cs[j]>>
            /\ CountsOf(_suits[1], [i \in 1..n |-> cs[i].suit], 1..4)
            /\ CountsOf(_all_ranks_counter[1], [i \in 1..n |-> cs[i].rank], 2..14)
            /\ \A k \in 1..(Len(sr) - 1) : sr[k] < sr[k + 1]
            /\ Range(sr) \ {1} = DistinctRanks(1)
            /\ 1 \in Range(sr) <=> 14 \in Range(sr)

\* a five-card board with an Ace, after two successful calls and a refused one
C16_Witness ==
    /\ Built(1) /\ Len(_cards[1]) = 5 /\ Len(added[1]) = 2
    /\ err = "DuplicateCard" /\ 14 \in DistinctRanks(1)

\* C17: whenever the validation of add_cards lets an argument through to the
\* append, the duplicate check of the rebuild passes on the appended cards;
\* so a call that changes the cards returns, with the caches rebuilt.
C17_ValidationAgreesWithRebuild ==
    /\ []( Built(1) =>
              \A s \in AddInputs :
                  AddError(_cards[1], s) = "ok" => ~CombRaises(_cards[1] \o NewCards(s)) )
    /\ [][ (Built(1) /\ _cards[1]' # _cards[1]) =>
              /\ err' = "ok" /\ added' # added
              /\ _suits[1]' = suit_histogram(_cards[1]')
              /\ _all_ranks_counter[1]' = rank_histogram(_cards[1]')
              /\ _straight_ranks[1]' = _get_straight_ranks(_cards[1]') ]_vars

\* two cards appended by one call, on a board that now refuses some two
\* different cards for the second of them
C17_Witness ==
    /\ Built(1) /\ Len(_cards[1]) = 5 /\ err = "ok" /\ call.op = "add"
    /\ Len(added[1]) = 1 /\ Len(added[1][1]) = 4
    /\ \E s \in AddInputs : Len(s) = 4 /\ ArgError(s) = "ok"
                               /\ Card(Token(s, 2)) \in Range(_cards[1])

\* C18: has_flush, has_straight and has_straight_flush hold only on boards of
\* exactly five cards.
C18_FiveCardsOnly ==
    Built(1) =>
        ((has_flush(1) \/ has_straight(1) \/ has_straight_flush(1)) =>
            Len(_cards[1]) = 5)

\* four cards of one suit with an Ace and three gaps of 1 in the rank set
C18_Witness ==
    /\ Built(1) /\ Len(_cards[1]) = 4
    /\ 14 \in DistinctRanks(1) /\ Count(_get_differences(1), 1) = 3
    /\ suit_count(1) = 4
    /\ ~has_flush(1) /\ ~has_straight(1) /\ ~has_straight_flush(1)

\* the number of cards of rank r on board b
RankCount(b, r) == Cardinality({i \in DOMAIN _cards[b] : _cards[b][i].rank = r})

\* C19: has_double holds exactly when two distinct ranks occur twice or more,
\* has_full_house exactly when the largest rank count is 3 and the next one
\* is 2; both are false on a board of one rank, and has_full_house implies
\* has_trip and has_double.
C19_DoubleAndFullHouse ==
    Built(1) =>
        /\ has_double(1) <=> Cardinality({r \in 2..14 : RankCount(1, r) >= 2}) >= 2
        /\ has_full_house(1) <=>
              \E r1 \in 2..14 :
                  /\ RankCount(1, r1) = 3
                  /\ \E r2 \in (2..14) \ {r1} : RankCount(1, r2) = 2
                  /\ \A r \in (2..14) \ {r1} : RankCount(1, r) <= 2
        /\ Cardinality(DistinctRanks(1)) = 1 => (~has_double(1) /\ ~has_full_house(1))
        /\ has_full_house(1) => (has_trip(1) /\ has_double(1))

\* two pairs behind a single card in the histogram, the pairs tied
C19_Witness ==
    /\ Built(1) /\ Len(_all_ranks_counter[1]) = 3
    /\ _all_ranks_counter[1][1][2] = 1
    /\ _all_ranks_counter[1][2][2] = 2 /\ _all_ranks_counter[1][3][2] = 2
    /\ has_double(1) /\ ~has_full_house(1)

\* C20: no add_cards call lowers best_ranking: a successful call leaves it
\* equal or higher, a failing call leaves it equal.
C20_BestRankingNeverDecreases ==
    [][ Built(1) =>
            /\ best_ranking(1)' >= best_ranking(1)
            /\ err' # "ok" => best_ranking(1)' = best_ranking(1) ]_vars

\* three of a kind on the flop grown to a full house by two calls, and a
\* further call refused
C20_Witness ==
    /\ Built(1) /\ Len(src[1]) = 6 /\ Len(added[1]) = 2
    /\ _cards[1][1].rank = _cards[1][3].rank
    /\ best_ranking(1) = 6 /\ err = "BoardFull"

====
